---- MODULE Spec2Model ----
(***************************************************************************)
(* Model of GradleTasksClient (src/extension/src/client.ts): the gRPC      *)
(* client of the Gradle tasks server.  The connection lifecycle            *)
(* (handleServerReady, connectToServer, handleClientReady,                 *)
(* handleConnectError, dispose), the server-streaming calls (getBuild,     *)
(* runTask) and the unary cancel calls are one state machine.  The event   *)
(* loop is single threaded: every action is one callback run to            *)
(* completion, together with the promise continuations it releases.        *)
(***************************************************************************)
EXTENDS Integers, Sequences, FiniteSets, TLC

\* ---------------------------------------------------------------- bounds
MaxServerReady == 2     \* server 'ready' events the environment raises
MaxDispose     == 2     \* dispose() calls
MaxThrows      == 1     \* transport constructions that throw
MaxCalls       == 1     \* getBuild / runTask invocations
MaxFrames      == 2     \* replies the server sends, over all streams
MaxUnary       == 1     \* unary cancel invocations
MaxSession     == 2     \* invocations of one session, streaming and unary

\* ------------------------------------------------------ program constants
maxConnectTries == 5

\* A transport (GrpcClient instance) is named by the order of construction;
\* NoClient is the null of "grpcClient: GrpcClient | null".
NoClient == 0
MaxTransports == MaxServerReady + maxConnectTries
Transports == 1..MaxTransports

VARIABLES
    grpcClient,        \* this.grpcClient: NoClient or a transport
    connectTries,      \* this.connectTries
    created,           \* number of GrpcClient instances constructed so far
    closeCalls,        \* transport -> number of close() calls it received
    waiting,           \* transports whose waitForReady callback is pending
    emitterDisposed,   \* _onConnect.dispose() has run (listeners dropped)
    connected,         \* notifications delivered to the onConnect subscriber
    statusVisible,     \* statusBarItem shown
    statusText,        \* statusBarItem.text
    connFx,            \* logger / server calls made by the connection handlers
    \* history of the run (what the environment and the client did)
    serverReadyEvents, \* server 'ready' events handled
    connectAttempts,   \* connectToServer invocations
    readyOk,           \* readiness callbacks without error handled
    readyErr,          \* readiness callbacks with error handled
    thrown,            \* constructions that threw
    restartMessages,   \* server.showRestartMessage invocations
    disposeCalls,      \* dispose() invocations
    \* the remote calls
    calls,             \* the getBuild / runTask invocations, in call order
    opened,            \* streams opened on a transport
    unary,             \* the cancelRunTask(s) / cancelGetBuilds invocations
    notified           \* task identity -> handleCancelledTask invocations
                       \* since the last runTask of that identity started

connVars == <<grpcClient, connectTries, created, closeCalls, waiting,
              emitterDisposed, connected, connFx, serverReadyEvents,
              connectAttempts, readyOk, readyErr, thrown, restartMessages,
              disposeCalls>>

statusVars == <<statusVisible, statusText>>

callVars == <<calls, opened, unary, notified>>

vars == <<connVars, statusVars, callVars>>

\* ------------------------------------------------------------ sink calls
\* One call made to an external sink: the logger, the status bar item, the
\* server, the task registry (handleCancelledTask) or the caller's onOutput.
\* what: the method or the localize key; arg: the arguments, as strings.
Fx(sink, level, what, arg) ==
    [sink |-> sink, level |-> level, what |-> what, arg |-> arg]
LogDebug(key, arg) == Fx("log", "debug", key, arg)
LogInfo(key, arg)  == Fx("log", "info", key, arg)
LogError(key, arg) == Fx("log", "error", key, arg)

\* grpcClient?.close(): one more close() call on the current transport
closeClient(closes, client) ==
    IF client = NoClient THEN closes
    ELSE [closes EXCEPT ![client] = @ + 1]

\* ------------------------------------------------------- connectToServer
\* try { grpcClient = new GrpcClient(..); grpcClient.waitForReady(..) }
\* catch { logger.error(..); statusBarItem.hide() }
\* throws: the construction throws.  visibleIn, fxIn, waitIn: the status
\* indicator, the sink calls and the pending callbacks as the caller left them.
connectToServer(throws, visibleIn, fxIn, waitIn) ==
    /\ connectAttempts' = connectAttempts + 1
    /\ IF throws
       THEN /\ thrown' = thrown + 1
            /\ connFx' = Append(fxIn, LogError("client.grpcClientConstructionError", <<>>))
            /\ statusVisible' = FALSE
            /\ waiting' = waitIn
            /\ UNCHANGED <<grpcClient, created>>
       ELSE /\ created' = created + 1
            /\ grpcClient' = created + 1
            /\ waiting' = waitIn \cup {created + 1}
            /\ statusVisible' = visibleIn
            /\ connFx' = fxIn
            /\ UNCHANGED thrown

\* whether a construction may throw in this step (bounded)
ThrowChoices == IF thrown < MaxThrows THEN {FALSE, TRUE} ELSE {FALSE}

\* ----------------------------------------------------- handleServerReady
handleServerReady ==
    /\ serverReadyEvents' = serverReadyEvents + 1
    /\ statusText' = <<"$(sync~spin) Gradle: Connecting">>
    /\ \E throws \in ThrowChoices :
         connectToServer(throws, TRUE,
                         Append(connFx, LogDebug("client.connecting", <<>>)), waiting)
    /\ UNCHANGED <<connectTries, closeCalls, emitterDisposed, connected,
                   readyOk, readyErr, restartMessages, disposeCalls>>

\* ---------------------------------------------------- handleConnectError
\* handleConnectError starting a new round of retries after the fatal signal
handleConnectErrorResets(waitIn) ==
    IF connectTries < maxConnectTries
    THEN /\ connectTries' = connectTries + 1
         /\ closeCalls' = closeClient(closeCalls, grpcClient)
         /\ \E throws \in ThrowChoices :
              connectToServer(throws, statusVisible, connFx, waitIn)
         /\ UNCHANGED <<restartMessages, statusText>>
    ELSE /\ connFx' = connFx \o <<LogError("client.errorConnectingToServer", <<>>),
                                  Fx("server", "prompt", "showRestartMessage", <<>>)>>
         /\ restartMessages' = restartMessages + 1
         /\ connectTries' = 0
         /\ waiting' = waitIn
         /\ UNCHANGED <<closeCalls, grpcClient, created,
                        thrown, connectAttempts, statusVars>>

\* waitIn: the pending callbacks without the one being handled
handleConnectError(waitIn) ==
    IF connectTries < maxConnectTries
    THEN /\ connectTries' = connectTries + 1
         /\ closeCalls' = closeClient(closeCalls, grpcClient)
         /\ \E throws \in ThrowChoices :
              connectToServer(throws, statusVisible, connFx, waitIn)
         /\ UNCHANGED <<restartMessages, statusText>>
    ELSE /\ connFx' = connFx \o <<LogError("client.errorConnectingToServer", <<>>),
                                  Fx("server", "prompt", "showRestartMessage", <<>>)>>
         /\ restartMessages' = restartMessages + 1
         /\ waiting' = waitIn
         /\ UNCHANGED <<connectTries, closeCalls, grpcClient, created,
                        thrown, connectAttempts, statusVars>>

\* _onConnect.fire(): every live listener runs once; a disposed emitter has
\* no listeners.  The subscriber is the one registerClient installs.
fire(n) == IF emitterDisposed THEN n ELSE n + 1

\* handleClientReady without the else: the notification fires on an error too
handleClientReadyNoElse(t, err) ==
    /\ t \in waiting
    /\ IF err
       THEN /\ readyErr' = readyErr + 1
            /\ handleConnectError(waiting \ {t})
            /\ connected' = fire(connected)
            /\ UNCHANGED readyOk
       ELSE /\ readyOk' = readyOk + 1
            /\ waiting' = waiting \ {t}
            /\ connFx' = Append(connFx, LogInfo("client.connected", <<>>))
            /\ connected' = fire(connected)
            /\ UNCHANGED <<readyErr, grpcClient, connectTries, created,
                           closeCalls, thrown, connectAttempts,
                           restartMessages, statusVars>>
    /\ UNCHANGED <<emitterDisposed, serverReadyEvents, disposeCalls>>

\* ----------------------------------------------------- handleClientReady
\* The waitForReady callback of transport t, with or without an error.
handleClientReady(t, err) ==
    /\ t \in waiting
    /\ IF err
       THEN /\ readyErr' = readyErr + 1
            /\ handleConnectError(waiting \ {t})
            /\ UNCHANGED <<readyOk, connected>>
       ELSE /\ readyOk' = readyOk + 1
            /\ waiting' = waiting \ {t}
            /\ connFx' = Append(connFx, LogInfo("client.connected", <<>>))
            /\ connected' = fire(connected)
            /\ UNCHANGED <<readyErr, grpcClient, connectTries, created,
                           closeCalls, thrown, connectAttempts,
                           restartMessages, statusVars>>
    /\ UNCHANGED <<emitterDisposed, serverReadyEvents, disposeCalls>>

\* ---------------------------------------------------------------- dispose
dispose ==
    /\ disposeCalls' = disposeCalls + 1
    /\ closeCalls' = closeClient(closeCalls, grpcClient)
    /\ emitterDisposed' = TRUE
    /\ UNCHANGED <<grpcClient, connectTries, created, waiting, connected,
                   connFx, serverReadyEvents, connectAttempts, readyOk,
                   readyErr, thrown, restartMessages, statusVars>>

\* ------------------------------------------------------------ wire data
\* the project folder and the task the callers pass
ProjectFolder == "/p"
TaskScript == "t1"
\* (projectDir, task): the identity of a task
Identities == {<<"/p", "t1">>, <<"/q", "t2">>}
Builds == {"X", "Y"}
NoBuild == "undefined"       \* "let build: GradleBuild | void = undefined"
\* message strings, as sequences of characters
Messages == {<<" ">>, <<" ", "A", " ">>}
OutputTypes == {"STDOUT", "STDERR"}

Frame(kind, outputType, message, task, projectDir, build) ==
    [kind |-> kind, outputType |-> outputType, message |-> message,
     task |-> task, projectDir |-> projectDir, build |-> build]

ProgressFrames  == {Frame("PROGRESS", "", m, "", "", NoBuild) : m \in Messages}
OutputFrames    == {Frame("OUTPUT", o, m, "", "", NoBuild) :
                        o \in OutputTypes, m \in Messages}
CancelledFrames == {Frame("CANCELLED", "", <<"stopped">>, id[2], id[1], NoBuild) :
                        id \in Identities}
ResultFrames    == {Frame("GET_BUILD_RESULT", "", <<>>, "", "", b) : b \in Builds}

\* GetBuildReply and RunTaskReply: the oneof of each stream
GetBuildReplies == ProgressFrames \cup OutputFrames \cup CancelledFrames
                       \cup ResultFrames
RunTaskReplies  == ProgressFrames \cup OutputFrames \cup CancelledFrames

\* a grpc.ServiceError: details may be absent (""), message never is
ServiceErrors == {[details |-> "", message |-> "m"],
                  [details |-> "d", message |-> "m"]}
\* "Cannot read property ... of null", thrown by this.grpcClient!.x(..)
TypeError == [details |-> "", message |-> "TypeError"]

\* no error: the null / undefined err of a callback
NoError == [details |-> "", message |-> ""]

\* err.details || err.message
ErrText(err) == IF err.details # "" THEN err.details ELSE err.message

\* String.prototype.trim on a sequence of characters
RECURSIVE TrimLeft(_)
TrimLeft(m) ==
    IF m # <<>> /\ Head(m) = " " THEN TrimLeft(Tail(m)) ELSE m
RECURSIVE TrimRight(_)
TrimRight(m) ==
    IF m # <<>> /\ m[Len(m)] = " " THEN TrimRight(SubSeq(m, 1, Len(m) - 1))
    ELSE m
trim(m) == TrimRight(TrimLeft(m))

\* ------------------------------------------------------- frame handlers
\* Each handler yields the sink calls it makes, in order.

\* handleCancelledTask(task, projectDir) of ./tasks: the bookkeeping registry
handleCancelledTask(task, projectDir) ==
    <<Fx("registry", "call", "handleCancelledTask", <<task, projectDir>>)>>

\* handleRunTaskCancelled with the registry's two arguments exchanged
handleRunTaskCancelledSwapped(cancelled) ==
    <<LogInfo("client.runTaskCancelled", cancelled.message)>>
        \o handleCancelledTask(cancelled.projectDir, cancelled.task)

handleRunTaskCancelled(cancelled) ==
    <<LogInfo("client.runTaskCancelled", cancelled.message)>>
        \o handleCancelledTask(cancelled.task, cancelled.projectDir)

\* handleGetBuildCancelled doing the bookkeeping handleRunTaskCancelled does
handleGetBuildCancelledBookkeeping(cancelled) ==
    <<LogInfo("client.getBuildCancelled", cancelled.message)>>
        \o handleCancelledTask(cancelled.task, cancelled.projectDir)

handleGetBuildCancelled(cancelled) ==
    <<LogInfo("client.getBuildCancelled", cancelled.message)>>

\* handleProgress testing the message as received, not trimmed
handleProgressUntrimmed(progress) ==
    IF progress.message # <<>>
    THEN <<Fx("status", "text", "$(sync~spin) Gradle: ", trim(progress.message))>>
    ELSE <<>>

handleProgress(progress) ==
    IF trim(progress.message) # <<>>
    THEN <<Fx("status", "text", "$(sync~spin) Gradle: ", trim(progress.message))>>
    ELSE <<>>

handleOutput(output) ==
    IF trim(output.message) # <<>>
    THEN IF output.outputType = "STDERR"
         THEN <<LogError("output", trim(output.message))>>
         ELSE IF output.outputType = "STDOUT"
              THEN <<LogInfo("output", trim(output.message))>>
              ELSE <<>>
    ELSE <<>>

\* the caller-supplied onOutput(output) of runTask
onOutput(output) ==
    <<Fx("onOutput", output.outputType, "output", output.message)>>

\* the 'data' listener of getBuild: switch (getBuildReply.getKindCase())
getBuildData(reply) ==
    CASE reply.kind = "PROGRESS"  -> handleProgress(reply)
      [] reply.kind = "OUTPUT"    -> handleOutput(reply)
      [] reply.kind = "CANCELLED" -> handleGetBuildCancelled(reply)
      [] OTHER                    -> <<>>

\* the result is kept only while no build has been seen
getBuildResultFirst(build, reply) ==
    IF reply.kind = "GET_BUILD_RESULT" /\ build = NoBuild THEN reply.build
    ELSE build

\* build = getBuildReply.getGetBuildResult()!.getBuild()
getBuildResult(build, reply) ==
    IF reply.kind = "GET_BUILD_RESULT" THEN reply.build ELSE build

\* the 'data' listener of runTask: switch (runTaskReply.getKindCase())
runTaskData(reply) ==
    CASE reply.kind = "PROGRESS"  -> handleProgress(reply)
      [] reply.kind = "OUTPUT"    -> onOutput(reply)
      [] reply.kind = "CANCELLED" -> handleRunTaskCancelled(reply)
      [] OTHER                    -> <<>>

\* the status bar text after the sink calls fx
RECURSIVE TextAfter(_, _)
TextAfter(text, fx) ==
    IF fx = <<>> THEN text
    ELSE TextAfter(IF Head(fx).sink = "status" /\ Head(fx).level = "text"
                   THEN <<Head(fx).what>> \o Head(fx).arg ELSE text,
                   Tail(fx))

\* the registry invocations among the sink calls fx, counted per identity
RECURSIVE NotifiedAfter(_, _)
NotifiedAfter(n, fx) ==
    IF fx = <<>> THEN n
    ELSE NotifiedAfter(
             IF Head(fx).sink = "registry"
                    /\ <<Head(fx).arg[2], Head(fx).arg[1]>> \in DOMAIN n
             THEN [n EXCEPT ![<<Head(fx).arg[2], Head(fx).arg[1]>>] = @ + 1]
             ELSE n,
             Tail(fx))

\* statusBarItem.show() / hide()
StatusShow == Fx("status", "show", "show", <<>>)
StatusHide == Fx("status", "hide", "hide", <<>>)

\* whether the status bar item is shown after the sink calls fx
RECURSIVE VisibleAfter(_, _)
VisibleAfter(visible, fx) ==
    IF fx = <<>> THEN visible
    ELSE VisibleAfter(IF Head(fx).sink = "status" /\ Head(fx).level = "show"
                      THEN TRUE
                      ELSE IF Head(fx).sink = "status" /\ Head(fx).level = "hide"
                           THEN FALSE ELSE visible,
                      Tail(fx))

\* the sink calls a step added to a call's record
Added(old, new) == SubSeq(new.fx, Len(old.fx) + 1, Len(new.fx))

\* the sinks' state after a step that took a call's record from old to new
ApplyFx(old, new) ==
    /\ statusText' = TextAfter(statusText, Added(old, new))
    /\ statusVisible' = VisibleAfter(statusVisible, Added(old, new))

\* ------------------------------------------------------ streaming calls
\* A getBuild or runTask invocation.  client: the transport the stream was
\* opened on; frames: the replies the 'data' listener has received; events:
\* the 'error' / 'end' events the stream has emitted; build: the local
\* variable of getBuild; inner: the promise around the stream; outcome, value:
\* the promise the invocation returned to its caller; error: the error the
\* stream emitted; fx: its sink calls.
NewCall(kind, projectFolder, task, fx) ==
    [kind |-> kind, projectFolder |-> projectFolder, task |-> task,
     client |-> grpcClient, frames |-> <<>>, events |-> <<>>,
     build |-> NoBuild,
     inner |-> IF grpcClient = NoClient THEN "none" ELSE "pending",
     \* this.grpcClient!.getBuild(request) on null throws before the try
     outcome |-> IF grpcClient = NoClient THEN "rejected" ELSE "pending",
     value |-> IF grpcClient = NoClient THEN TypeError.message ELSE NoBuild,
     error |-> NoError,
     fx |-> fx]

getBuild(projectFolder) ==
    /\ LET call == NewCall("getBuild", projectFolder, "",
                           <<Fx("status", "text",
                                "$(sync~spin) Gradle: Refreshing Tasks", <<>>),
                             StatusShow>>)
       IN /\ calls' = Append(calls, call)
          /\ statusText' = TextAfter(statusText, call.fx)
          /\ statusVisible' = VisibleAfter(statusVisible, call.fx)
    /\ opened' = IF grpcClient = NoClient THEN opened ELSE opened + 1
    /\ UNCHANGED <<unary, notified, connVars>>

runTask(projectFolder, task) ==
    /\ LET call == NewCall("runTask", projectFolder, task, <<StatusShow>>)
       IN /\ calls' = Append(calls, call)
          /\ statusText' = TextAfter(statusText, call.fx)
          /\ statusVisible' = VisibleAfter(statusVisible, call.fx)
    \* a new run of the identity starts a new cancellation episode
    /\ notified' = IF grpcClient = NoClient THEN notified
                   ELSE [notified EXCEPT ![<<projectFolder, task>>] = 0]
    /\ opened' = IF grpcClient = NoClient THEN opened ELSE opened + 1
    /\ UNCHANGED <<unary, connVars>>

\* the 'data' listener registered twice: every reply is handled twice
onDataTwice(call, reply) ==
    IF call.kind = "getBuild"
    THEN [call EXCEPT !.frames = Append(@, reply),
                      !.build = getBuildResult(@, reply),
                      !.fx = @ \o getBuildData(reply) \o getBuildData(reply)]
    ELSE [call EXCEPT !.frames = Append(@, reply),
                      !.fx = @ \o runTaskData(reply) \o runTaskData(reply)]

\* .on('data', ..): one reply arrives and its listener runs
onData(call, reply) ==
    IF call.kind = "getBuild"
    THEN [call EXCEPT !.frames = Append(@, reply),
                      !.build = getBuildResult(@, reply),
                      !.fx = @ \o getBuildData(reply)]
    ELSE [call EXCEPT !.frames = Append(@, reply),
                      !.fx = @ \o runTaskData(reply)]

\* getBuild, .on('end', () => resolve(build)), then finally
getBuildEnd(call) ==
    [call EXCEPT !.inner = "resolved", !.outcome = "resolved",
                 !.value = call.build, !.fx = @ \o <<StatusHide>>]

\* the catch of getBuild logging err.message without looking at err.details
getBuildErrorMessageOnly(call, err) ==
    [call EXCEPT !.inner = "rejected", !.outcome = "resolved",
                 !.value = NoBuild,
                 !.fx = @ \o <<LogError("client.errorGettingBuild",
                                        <<call.projectFolder, err.message>>),
                               StatusHide>>]

\* getBuild, .on('error', reject), then catch and finally
getBuildError(call, err) ==
    [call EXCEPT !.inner = "rejected", !.outcome = "resolved",
                 !.value = NoBuild,
                 !.fx = @ \o <<LogError("client.errorGettingBuild",
                                        <<call.projectFolder, ErrText(err)>>),
                               StatusHide>>]

\* runTask, .on('end', () => resolve()), then logger.info and finally
runTaskEnd(call) ==
    [call EXCEPT !.inner = "resolved", !.outcome = "resolved",
                 !.fx = @ \o <<LogInfo("client.completedTask", <<call.task>>),
                               StatusHide>>]

\* runTask, .on('error', reject), then catch and finally
runTaskError(call, err) ==
    [call EXCEPT !.inner = "rejected", !.outcome = "resolved",
                 !.fx = @ \o <<LogError("client.errorRunningTask",
                                        <<ErrText(err)>>),
                               StatusHide>>]

\* the 'end' listener completing the call whatever came before
onEndUnguarded(call) ==
    IF call.kind = "getBuild" THEN getBuildEnd(call) ELSE runTaskEnd(call)

\* a settled promise ignores later resolve / reject calls
onEnd(call) ==
    IF call.inner # "pending" THEN call
    ELSE IF call.kind = "getBuild" THEN getBuildEnd(call) ELSE runTaskEnd(call)

onError(call, err) ==
    IF call.inner # "pending" THEN call
    ELSE IF call.kind = "getBuild" THEN getBuildError(call, err)
         ELSE runTaskError(call, err)

\* the number of replies received on the first n calls
RECURSIVE FramesSent(_)
FramesSent(n) ==
    IF n = 0 THEN 0 ELSE Len(calls[n].frames) + FramesSent(n - 1)

\* the stream of call c delivers a reply
StreamData(c, reply) ==
    /\ calls[c].client # NoClient
    /\ calls[c].events = <<>>
    /\ reply \in (IF calls[c].kind = "getBuild" THEN GetBuildReplies
                  ELSE RunTaskReplies)
    /\ LET new == onData(calls[c], reply)
       IN /\ calls' = [calls EXCEPT ![c] = new]
          /\ ApplyFx(calls[c], new)
          /\ notified' = NotifiedAfter(notified, Added(calls[c], new))
    /\ UNCHANGED <<opened, unary, connVars>>

\* the 'error' listener closing the transport, as handleConnectError does
StreamErrorClosesTransport(c, err) ==
    /\ calls[c].client # NoClient
    /\ calls[c].events = <<>>
    /\ LET new == [onError(calls[c], err) EXCEPT !.events = Append(@, "error"),
                                                   !.error = err]
       IN /\ calls' = [calls EXCEPT ![c] = new]
          /\ ApplyFx(calls[c], new)
    /\ closeCalls' = closeClient(closeCalls, grpcClient)
    /\ UNCHANGED <<opened, unary, notified, grpcClient, connectTries, created,
                   waiting, emitterDisposed, connected, connFx,
                   serverReadyEvents, connectAttempts, readyOk, readyErr,
                   thrown, restartMessages, disposeCalls>>

\* the stream of call c emits 'error' (a non-OK status)
StreamError(c, err) ==
    /\ calls[c].client # NoClient
    /\ calls[c].events = <<>>
    /\ LET new == [onError(calls[c], err) EXCEPT !.events = Append(@, "error"),
                                                   !.error = err]
       IN /\ calls' = [calls EXCEPT ![c] = new]
          /\ ApplyFx(calls[c], new)
    /\ UNCHANGED <<opened, unary, notified, connVars>>

\* the stream of call c emits 'end', also after an 'error'
StreamEnd(c) ==
    /\ calls[c].client # NoClient
    /\ "end" \notin {calls[c].events[k] : k \in DOMAIN calls[c].events}
    /\ LET new == [onEnd(calls[c]) EXCEPT !.events = Append(@, "end")]
       IN /\ calls' = [calls EXCEPT ![c] = new]
          /\ ApplyFx(calls[c], new)
    /\ UNCHANGED <<opened, unary, notified, connVars>>

\* ---------------------------------------------------------- unary calls
\* A cancelRunTask, cancelRunTasks or cancelGetBuilds invocation.  reply:
\* "pending", "ok", "error", or "throw" when grpcClient was null.
NewUnary(kind, projectFolder, task, errorKey) ==
    [kind |-> kind, projectFolder |-> projectFolder, task |-> task,
     client |-> grpcClient,
     reply |-> IF grpcClient = NoClient THEN "throw" ELSE "pending",
     taskRunning |-> FALSE,
     outcome |-> IF grpcClient = NoClient THEN "resolved" ELSE "pending",
     \* this.grpcClient!.x(..) on null throws inside the try
     fx |-> IF grpcClient = NoClient
            THEN <<LogError(errorKey, <<ErrText(TypeError)>>)>> ELSE <<>>]

cancelRunTask(projectFolder, task) ==
    /\ unary' = Append(unary, NewUnary("cancelRunTask", projectFolder, task,
                                       "client.errorCancellingRunningTask"))
    /\ UNCHANGED <<calls, opened, notified, connVars, statusVars>>

cancelRunTasks ==
    /\ unary' = Append(unary, NewUnary("cancelRunTasks", "", "",
                                       "client.errorCancellingRunningTasks"))
    /\ UNCHANGED <<calls, opened, notified, connVars, statusVars>>

cancelGetBuilds ==
    /\ unary' = Append(unary, NewUnary("cancelGetBuilds", "", "",
                                       "client.errorCancellingGetBuilds"))
    /\ UNCHANGED <<calls, opened, notified, connVars, statusVars>>

\* the callback of cancelRunTask testing getTaskRunning() the wrong way round
cancelRunTaskReplyInverted(call, err, taskRunning) ==
    IF err # NoError
    THEN [call EXCEPT !.reply = "error", !.outcome = "resolved",
                      !.fx = @ \o <<LogError("client.errorCancellingRunningTask",
                                             <<ErrText(err)>>)>>]
    ELSE [call EXCEPT !.reply = "ok", !.outcome = "resolved",
                      !.taskRunning = taskRunning,
                      !.fx = @ \o <<LogDebug("reply", <<"message">>)>>
                               \o IF taskRunning
                                  THEN handleCancelledTask(call.task,
                                                           call.projectFolder)
                                  ELSE <<>>]

\* the callback of cancelRunTask: err, or a reply with getTaskRunning()
cancelRunTaskReply(call, err, taskRunning) ==
    IF err # NoError
    THEN [call EXCEPT !.reply = "error", !.outcome = "resolved",
                      !.fx = @ \o <<LogError("client.errorCancellingRunningTask",
                                             <<ErrText(err)>>)>>]
    ELSE [call EXCEPT !.reply = "ok", !.outcome = "resolved",
                      !.taskRunning = taskRunning,
                      !.fx = @ \o <<LogDebug("reply", <<"message">>)>>
                               \o IF ~taskRunning
                                  THEN handleCancelledTask(call.task,
                                                           call.projectFolder)
                                  ELSE <<>>]

\* the callback of cancelRunTasks and of cancelGetBuilds
cancelAllReply(call, err) ==
    IF err # NoError
    THEN [call EXCEPT !.reply = "error", !.outcome = "resolved",
                      !.fx = @ \o <<LogError(
                                 IF call.kind = "cancelRunTasks"
                                 THEN "client.errorCancellingRunningTasks"
                                 ELSE "client.errorCancellingGetBuilds",
                                 <<ErrText(err)>>)>>]
    ELSE [call EXCEPT !.reply = "ok", !.outcome = "resolved",
                      !.fx = @ \o <<LogDebug("reply", <<"message">>)>>]

\* the server answers unary call u
UnaryReply(u, err, taskRunning) ==
    /\ unary[u].reply = "pending"
    /\ unary[u].kind = "cancelRunTask" \/ ~taskRunning
    /\ LET new == IF unary[u].kind = "cancelRunTask"
                  THEN cancelRunTaskReply(unary[u], err, taskRunning)
                  ELSE cancelAllReply(unary[u], err)
       IN /\ unary' = [unary EXCEPT ![u] = new]
          /\ notified' = NotifiedAfter(notified, Added(unary[u], new))
    /\ UNCHANGED <<calls, opened, connVars, statusVars>>

\* ------------------------------------------------------------------- Init
\* The state after "new GradleTasksClient(server, statusBarItem)" and
\* registerClient's onConnect subscription; server.start() has been called and
\* no 'ready' event has been raised yet.
Init ==
    /\ grpcClient = NoClient
    /\ connectTries = 0
    /\ created = 0
    /\ closeCalls = [t \in Transports |-> 0]
    /\ waiting = {}
    /\ emitterDisposed = FALSE
    /\ connected = 0
    /\ statusVisible = FALSE
    /\ statusText = <<>>
    /\ connFx = <<>>
    /\ serverReadyEvents = 0
    /\ connectAttempts = 0
    /\ readyOk = 0
    /\ readyErr = 0
    /\ thrown = 0
    /\ restartMessages = 0
    /\ disposeCalls = 0
    /\ calls = <<>>
    /\ opened = 0
    /\ unary = <<>>
    /\ notified = [id \in Identities |-> 0]

\* ------------------------------------------------- connection lifecycle
ServerReady ==
    /\ serverReadyEvents < MaxServerReady
    /\ handleServerReady
    /\ UNCHANGED callVars

ClientReady ==
    /\ \E t \in Transports, err \in BOOLEAN : handleClientReady(t, err)
    /\ UNCHANGED callVars

Dispose ==
    /\ disposeCalls < MaxDispose
    /\ dispose
    /\ UNCHANGED callVars

Next ==
    \/ ServerReady
    \/ ClientReady
    \/ Dispose

Spec == Init /\ [][Next]_vars

\* ----------------------------------------------------------- the calls
\* The remote calls run on a server that becomes ready once and whose
\* transport is constructed without error.
Connect ==
    /\ serverReadyEvents = 0
    /\ handleServerReady
    /\ thrown' = thrown
    /\ UNCHANGED callVars

GetBuild == Len(calls) < MaxCalls /\ getBuild(ProjectFolder)

RunTask == Len(calls) < MaxCalls /\ runTask(ProjectFolder, TaskScript)

Data ==
    /\ FramesSent(Len(calls)) < MaxFrames
    /\ \E c \in DOMAIN calls, reply \in GetBuildReplies : StreamData(c, reply)

Error == \E c \in DOMAIN calls, err \in ServiceErrors : StreamError(c, err)

End == \E c \in DOMAIN calls : StreamEnd(c)

\* the streaming calls: getBuild and runTask, alone or concurrently
NextStreams ==
    \/ Connect
    \/ GetBuild
    \/ RunTask
    \/ Data
    \/ Error
    \/ End

SpecStreams == Init /\ [][NextStreams]_vars

\* a Cancelled reply: the server's notification that a task was cancelled
Cancelled ==
    /\ FramesSent(Len(calls)) < MaxFrames
    /\ \E c \in DOMAIN calls, reply \in CancelledFrames : StreamData(c, reply)

CancelRunTask ==
    /\ Len(unary) < MaxUnary
    /\ \E id \in Identities : cancelRunTask(id[1], id[2])

CancelRunTasks == Len(unary) < MaxUnary /\ cancelRunTasks

CancelGetBuilds == Len(unary) < MaxUnary /\ cancelGetBuilds

Reply ==
    \E u \in DOMAIN unary, err \in ServiceErrors \cup {NoError},
       taskRunning \in BOOLEAN : UnaryReply(u, err, taskRunning)

\* cancellation: the unary cancel calls beside running tasks
NextCancel ==
    \/ Connect
    \/ RunTask
    \/ Cancelled
    \/ End
    \/ CancelRunTask
    \/ CancelRunTasks
    \/ CancelGetBuilds
    \/ Reply

SpecCancel == Init /\ [][NextCancel]_vars

\* ---------------------------------------------------------- the session
\* The calls of one session on a connected client: streaming calls, one
\* after another or open at the same time, beside the unary cancel calls.
\* MaxSession bounds the invocations of a session, streaming and unary.
SessionCalls == Len(calls) + Len(unary)

SessionGetBuild == SessionCalls < MaxSession /\ getBuild(ProjectFolder)

SessionRunTask == SessionCalls < MaxSession /\ runTask(ProjectFolder, TaskScript)

SessionCancelRunTask ==
    /\ SessionCalls < MaxSession
    /\ \E id \in Identities : cancelRunTask(id[1], id[2])

SessionCancelRunTasks == SessionCalls < MaxSession /\ cancelRunTasks

SessionCancelGetBuilds == SessionCalls < MaxSession /\ cancelGetBuilds

NextSession ==
    \/ Connect
    \/ SessionGetBuild
    \/ SessionRunTask
    \/ Cancelled
    \/ Error
    \/ End
    \/ SessionCancelRunTask
    \/ SessionCancelRunTasks
    \/ SessionCancelGetBuilds
    \/ Reply

SpecSession == Init /\ [][NextSession]_vars

\* -------------------------------------------------------------------
\* Properties of the connection lifecycle (Spec)
\* -------------------------------------------------------------------

\* C1: with maxConnectTries = 5, one server 'ready' event and every readiness
\* wait failing, connectToServer has been attempted exactly 5 times when the
\* fatal signal is raised, and showRestartMessage is invoked exactly once.
C1_FiveAttemptsThenFatal ==
    (serverReadyEvents = 1 /\ readyOk = 0 /\ thrown = 0 /\ restartMessages >= 1)
        => (connectAttempts = maxConnectTries /\ restartMessages = 1)

\* C2 as stated: at every moment the notifications delivered to the onConnect
\* subscriber are as many as the successful readiness callbacks so far,
\* whatever server 'ready' events, callbacks and dispose() calls came before.
C2_NotificationsEqualSuccesses == connected = readyOk

\* C2, amended: a successful readiness callback delivers exactly one
\* notification to the subscriber while _onConnect has not been disposed and
\* none once it has; no other step delivers one, so there is never a
\* notification before the first success nor two for one success.
C2_OneNotificationPerLiveSuccess ==
    [][connected' = connected
          + (IF readyOk' = readyOk + 1 /\ ~emitterDisposed THEN 1 ELSE 0)]_vars

\* C2 witness: one success was notified, then dispose(), then a success that
\* was not.
C2_Witness == connected = 1 /\ readyOk = 2 /\ emitterDisposed

\* C6: a dispose() call never leaves a transport with more than one close():
\* the second and later calls do not close the transport handle again.
C6_DisposeClosesOnce ==
    [][disposeCalls' = disposeCalls + 1
          => \A t \in Transports : closeCalls'[t] <= 1]_vars

\* -------------------------------------------------------------------
\* Properties of the remote calls (SpecStreams, SpecCancel)
\* -------------------------------------------------------------------
Range(seq) == {seq[k] : k \in DOMAIN seq}

\* the arguments of the handleCancelledTask invocations among the sink calls
RegistryArgs(fx) ==
    LET sel == SelectSeq(fx, LAMBDA e : e.sink = "registry")
    IN [k \in DOMAIN sel |-> sel[k].arg]

\* (task, projectDir) of the Cancelled replies among the frames, in order
CancelledArgs(frames) ==
    LET sel == SelectSeq(frames, LAMBDA f : f.kind = "CANCELLED")
    IN [k \in DOMAIN sel |-> <<sel[k].task, sel[k].projectDir>>]

\* C3: in one cancellation episode of a task identity (from the start of its
\* run), one cancelRunTask reply with taskRunning = false and one Cancelled
\* reply for that identity invoke handleCancelledTask at most once for it.
C3_AtMostOnePerEpisode ==
    \A id \in Identities :
        (\A c \in DOMAIN calls :
             Cardinality({k \in DOMAIN calls[c].frames :
                              /\ calls[c].frames[k].kind = "CANCELLED"
                              /\ calls[c].frames[k].task = id[2]
                              /\ calls[c].frames[k].projectDir = id[1]}) <= 1)
            => notified[id] <= 1

\* C4: a cancelRunTask call that was answered invokes handleCancelledTask
\* exactly once, with (task, projectFolder), when the reply came without error
\* and with taskRunning = false, and never otherwise.
C4_CancelReplyBookkeeping ==
    \A u \in DOMAIN unary :
        (unary[u].kind = "cancelRunTask" /\ unary[u].reply # "pending")
            => RegistryArgs(unary[u].fx)
                   = IF unary[u].reply = "ok" /\ ~unary[u].taskRunning
                     THEN << <<unary[u].task, unary[u].projectFolder>> >>
                     ELSE <<>>

\* C4 witness: a reply with taskRunning = false has been handled.
C4_Witness ==
    \E u \in DOMAIN unary :
        /\ unary[u].kind = "cancelRunTask"
        /\ unary[u].reply = "ok"
        /\ ~unary[u].taskRunning
        /\ RegistryArgs(unary[u].fx) # <<>>

\* C5: on a runTask stream the handleCancelledTask invocations are, one for
\* one and in order, the Cancelled replies received, each with the task and
\* the project directory the reply carries.
C5_CancelledFrameBookkeeping ==
    \A c \in DOMAIN calls :
        calls[c].kind = "runTask"
            => RegistryArgs(calls[c].fx) = CancelledArgs(calls[c].frames)

\* C5 witness: a Cancelled reply naming another project than the request's
\* has been handled.
C5_Witness ==
    \E c \in DOMAIN calls :
        /\ calls[c].kind = "runTask"
        /\ \E k \in DOMAIN calls[c].frames :
             /\ calls[c].frames[k].kind = "CANCELLED"
             /\ calls[c].frames[k].projectDir # calls[c].projectFolder
        /\ RegistryArgs(calls[c].fx) # <<>>

\* C7: every getBuild or runTask invocation that has shown the status
\* indicator has hidden it once the invocation has terminated.
C7_IndicatorHiddenOnExit ==
    \A c \in DOMAIN calls :
        (calls[c].outcome # "pending" /\ StatusShow \in Range(calls[c].fx))
            => StatusHide \in Range(calls[c].fx)

\* the error entries getBuild's catch wrote
GetBuildErrorLogs(fx) ==
    SelectSeq(fx, LAMBDA e : e.sink = "log"
                             /\ e.what = "client.errorGettingBuild")

\* a getBuild call whose stream emitted 'error'
GetBuildFailed(c) ==
    /\ calls[c].kind = "getBuild"
    /\ calls[c].events # <<>>
    /\ calls[c].events[1] = "error"

\* every invocation made on a transport opened exactly one stream
OneStreamPerCall ==
    opened = Cardinality({c \in DOMAIN calls : calls[c].client # NoClient})

LastResult(frames) ==
    LET sel == SelectSeq(frames, LAMBDA f : f.kind = "GET_BUILD_RESULT")
    IN IF sel = <<>> THEN NoBuild ELSE sel[Len(sel)].build

\* C9: a getBuild call whose stream ends (without an error before) resolves to
\* the build of the GetBuildResult reply received, the last one if several,
\* and to void exactly when no GetBuildResult was received.
C9_ResolvesToResult ==
    \A c \in DOMAIN calls :
        (calls[c].kind = "getBuild" /\ calls[c].events = <<"end">>)
            => /\ calls[c].outcome = "resolved"
               /\ calls[c].value = LastResult(calls[c].frames)
               /\ (calls[c].value = NoBuild
                      <=> \A k \in DOMAIN calls[c].frames :
                              calls[c].frames[k].kind # "GET_BUILD_RESULT")

\* C9 witness: a stream with two different results has ended.
C9_Witness ==
    \E c \in DOMAIN calls :
        /\ calls[c].kind = "getBuild"
        /\ calls[c].events = <<"end">>
        /\ Len(calls[c].frames) = 2
        /\ calls[c].frames[1].kind = "GET_BUILD_RESULT"
        /\ calls[c].frames[2].kind = "GET_BUILD_RESULT"
        /\ calls[c].frames[1].build # calls[c].frames[2].build
        /\ calls[c].value = calls[c].frames[2].build

\* the sink calls the 'data' listeners make: progress text, output and
\* cancellation log entries, onOutput and registry invocations
HandlerFx(fx) ==
    SelectSeq(fx, LAMBDA e :
        \/ e.sink \in {"registry", "onOutput"}
        \/ e.sink = "status" /\ e.what = "$(sync~spin) Gradle: "
        \/ e.sink = "log" /\ e.what \in {"output", "client.runTaskCancelled",
                                         "client.getBuildCancelled"})

\* the frames mapped through the stream's handlers, in arrival order
RECURSIVE MappedFx(_, _)
MappedFx(kind, frames) ==
    IF frames = <<>> THEN <<>>
    ELSE (IF kind = "getBuild" THEN getBuildData(Head(frames))
          ELSE runTaskData(Head(frames)))
             \o MappedFx(kind, Tail(frames))

\* C10: on every stream the handlers' sink calls are the replies received
\* mapped through the stream's handlers, each reply once and in arrival
\* order.
C10_HandlersInArrivalOrder ==
    \A c \in DOMAIN calls :
        HandlerFx(calls[c].fx) = MappedFx(calls[c].kind, calls[c].frames)

\* C10 witness: a stream has delivered two replies of different kinds, each
\* with a visible effect, and has ended.
C10_Witness ==
    \E c \in DOMAIN calls :
        /\ Len(calls[c].frames) = 2
        /\ calls[c].frames[1].kind # calls[c].frames[2].kind
        /\ MappedFx(calls[c].kind, <<calls[c].frames[1]>>) # <<>>
        /\ MappedFx(calls[c].kind, <<calls[c].frames[2]>>) # <<>>
        /\ Len(HandlerFx(calls[c].fx)) >= 2
        /\ "end" \in Range(calls[c].events)

\* the caller's onOutput invocations among the sink calls
OnOutputCalls(fx) == SelectSeq(fx, LAMBDA e : e.sink = "onOutput")

\* the log entries that carry a build's or a task's output
OutputLogs(fx) == SelectSeq(fx, LAMBDA e : e.sink = "log" /\ e.what = "output")

\* the Output replies among the frames, in order
OutputsOf(frames) == SelectSeq(frames, LAMBDA f : f.kind = "OUTPUT")

\* the log entries of the Output replies: error severity for Stderr, info
\* severity for Stdout, none for a message that is empty after trimming
RECURSIVE LoggedOutputs(_)
LoggedOutputs(outputs) ==
    IF outputs = <<>> THEN <<>>
    ELSE (IF trim(Head(outputs).message) = <<>> THEN <<>>
          ELSE <<Fx("log",
                    IF Head(outputs).outputType = "STDERR" THEN "error" ELSE "info",
                    "output", trim(Head(outputs).message))>>)
             \o LoggedOutputs(Tail(outputs))

\* C11: every Output reply received on a runTask stream has been passed to the
\* caller's onOutput and has also been written to the log, with error severity
\* for Stderr and info severity for Stdout.
C11_OutputForwardedAndLogged ==
    \A c \in DOMAIN calls :
        calls[c].kind = "runTask"
            => /\ OnOutputCalls(calls[c].fx)
                      = [k \in DOMAIN OutputsOf(calls[c].frames) |->
                             Fx("onOutput", OutputsOf(calls[c].frames)[k].outputType,
                                "output", OutputsOf(calls[c].frames)[k].message)]
               /\ OutputLogs(calls[c].fx)
                      = LoggedOutputs(OutputsOf(calls[c].frames))

\* the log entries and the status text updates among the sink calls
LogCalls(fx) == SelectSeq(fx, LAMBDA e : e.sink = "log")
StatusTextCalls(fx) ==
    SelectSeq(fx, LAMBDA e : e.sink = "status" /\ e.level = "text")

\* C12: on a getBuild or a runTask stream, a Progress or Output reply whose
\* message is empty after trimming leaves the status text and the log as they
\* were; a Progress reply with a non-empty trimmed message makes exactly one
\* status update, to that trimmed message, and an Output reply with one on a
\* getBuild stream writes exactly one log entry, at error severity for Stderr
\* and info severity for Stdout.
C12_FrameEffect ==
    [][\A c \in DOMAIN calls :
         Len(calls'[c].frames) = Len(calls[c].frames) + 1
             => LET f == calls'[c].frames[Len(calls'[c].frames)]
                    added == Added(calls[c], calls'[c])
                IN  f.kind \in {"PROGRESS", "OUTPUT"}
                        => IF trim(f.message) = <<>>
                           THEN /\ statusText' = statusText
                                /\ StatusTextCalls(added) = <<>>
                                /\ LogCalls(added) = <<>>
                                /\ connFx' = connFx
                           ELSE IF f.kind = "PROGRESS"
                           THEN /\ StatusTextCalls(added)
                                       = <<Fx("status", "text",
                                              "$(sync~spin) Gradle: ",
                                              trim(f.message))>>
                                /\ statusText' = <<"$(sync~spin) Gradle: ">>
                                                     \o trim(f.message)
                                /\ LogCalls(added) = <<>>
                           ELSE calls[c].kind = "getBuild"
                                    => /\ LogCalls(added)
                                              = <<Fx("log",
                                                     IF f.outputType = "STDERR"
                                                     THEN "error" ELSE "info",
                                                     "output", trim(f.message))>>
                                       /\ statusText' = statusText]_vars

\* C12 witness: a getBuild stream has delivered a Progress reply of white
\* space only, which changed nothing, and a Stderr reply ' A ', which wrote
\* one error entry 'A'.
C12_Witness ==
    \E c \in DOMAIN calls :
        /\ calls[c].kind = "getBuild"
        /\ Len(calls[c].frames) = 2
        /\ calls[c].frames[1].kind = "PROGRESS"
        /\ calls[c].frames[1].message = <<" ">>
        /\ calls[c].frames[2].kind = "OUTPUT"
        /\ calls[c].frames[2].outputType = "STDERR"
        /\ calls[c].frames[2].message = <<" ", "A", " ">>
        /\ LogCalls(calls[c].fx) = <<LogError("output", <<"A">>)>>
        /\ statusText = <<"$(sync~spin) Gradle: Refreshing Tasks">>

\* -------------------------------------------------------------------
\* Further properties of the connection lifecycle (Spec)
\* -------------------------------------------------------------------

\* C13: once showRestartMessage has been invoked, no step other than the
\* handling of a new server 'ready' event starts a connect attempt,
\* constructs a transport or starts a readiness wait.
C13_TerminalAfterFatal ==
    [][(restartMessages >= 1 /\ serverReadyEvents' = serverReadyEvents)
          => /\ connectAttempts' = connectAttempts
             /\ created' = created
             /\ waiting' \subseteq waiting]_vars

\* C13 witness: after the fatal signal the readiness callback of an earlier
\* attempt reported an error, which raised the signal again and started no
\* attempt: two server 'ready' events and five retries are all the attempts.
C13_Witness ==
    /\ restartMessages = 2
    /\ thrown = 0
    /\ connectAttempts = 2 + maxConnectTries
    /\ readyErr = connectAttempts

\* C14: when every connect attempt made so far has failed, by a construction
\* that threw or by a readiness callback with an error, then another attempt
\* is pending or the fatal signal has been raised.
C14_FailureRetriesOrFatal ==
    (connectAttempts >= 1 /\ connectAttempts = thrown + readyErr)
        => (waiting # {} \/ restartMessages >= 1)

\* C15: at most one transport that was constructed and has not been closed
\* exists, whatever server 'ready' events and readiness callbacks occurred.
C15_OneLiveTransport ==
    Cardinality({t \in 1..created : closeCalls[t] = 0}) <= 1

\* C17: after dispose() has been called, a readiness callback, with or
\* without an error, constructs no transport, starts no readiness wait and
\* delivers no notification.
C17_QuietAfterDispose ==
    [][(disposeCalls >= 1 /\ readyOk' + readyErr' = readyOk + readyErr + 1)
          => /\ created' = created
             /\ connectAttempts' = connectAttempts
             /\ waiting' \subseteq waiting
             /\ connected' = connected]_vars

\* -------------------------------------------------------------------
\* Further properties of the remote calls
\* -------------------------------------------------------------------

\* the entries runTask writes when its stream has terminated
RunTaskTerminalLogs(fx) ==
    SelectSeq(fx, LAMBDA e : e.sink = "log"
                             /\ e.what \in {"client.completedTask",
                                            "client.errorRunningTask"})

\* C16: a runTask call on a live transport is never rejected; while its
\* stream has emitted neither 'error' nor 'end' it is pending and has written
\* neither entry, and from the first of these events on it is resolved and
\* has written exactly one entry: 'completed task' (info) when the stream
\* ended, 'error running task' (error) when it failed, also when an 'end'
\* follows the 'error'.
C16_RunTaskSettlesOnce ==
    \A c \in DOMAIN calls :
        (calls[c].kind = "runTask" /\ calls[c].client # NoClient)
            => IF calls[c].events = <<>>
               THEN /\ calls[c].outcome = "pending"
                    /\ RunTaskTerminalLogs(calls[c].fx) = <<>>
               ELSE /\ calls[c].outcome = "resolved"
                    /\ RunTaskTerminalLogs(calls[c].fx)
                           = <<IF calls[c].events[1] = "end"
                               THEN LogInfo("client.completedTask",
                                            <<calls[c].task>>)
                               ELSE LogError("client.errorRunningTask",
                                             <<ErrText(calls[c].error)>>)>>

\* C16 witness: a runTask stream has emitted 'error' and then 'end'.
C16_Witness ==
    \E c \in DOMAIN calls :
        /\ calls[c].kind = "runTask"
        /\ calls[c].events = <<"error", "end">>
        /\ calls[c].outcome = "resolved"
        /\ Len(RunTaskTerminalLogs(calls[c].fx)) = 1

\* C18: no getBuild call, whatever replies (Cancelled ones included) and
\* errors its stream delivered, and no cancelRunTasks or cancelGetBuilds
\* call, whatever its reply or error, has invoked handleCancelledTask; a
\* step that invokes it is a Cancelled reply arriving on a runTask stream or
\* a cancelRunTask reply without error and with taskRunning = false.
C18_RegistryCallers ==
    [][/\ \A c \in DOMAIN calls' :
            calls'[c].kind = "getBuild" => RegistryArgs(calls'[c].fx) = <<>>
       /\ \A u \in DOMAIN unary' :
            unary'[u].kind \in {"cancelRunTasks", "cancelGetBuilds"}
                => RegistryArgs(unary'[u].fx) = <<>>
       /\ (\E id \in Identities : notified'[id] > notified[id])
            => \/ \E c \in DOMAIN calls :
                    /\ calls[c].kind = "runTask"
                    /\ Len(calls'[c].frames) = Len(calls[c].frames) + 1
                    /\ calls'[c].frames[Len(calls'[c].frames)].kind = "CANCELLED"
               \/ \E u \in DOMAIN unary :
                    /\ unary[u].kind = "cancelRunTask"
                    /\ unary[u].reply = "pending"
                    /\ unary'[u].reply = "ok"
                    /\ ~unary'[u].taskRunning]_vars

\* C18 witness: a getBuild stream has delivered a Cancelled reply and then
\* failed, a cancelRunTasks or cancelGetBuilds call has been answered, and
\* the registry has not been invoked.
C18_Witness ==
    /\ \E c \in DOMAIN calls :
           /\ calls[c].kind = "getBuild"
           /\ \E k \in DOMAIN calls[c].frames : calls[c].frames[k].kind = "CANCELLED"
           /\ calls[c].events # <<>>
    /\ \E u \in DOMAIN unary :
           /\ unary[u].kind \in {"cancelRunTasks", "cancelGetBuilds"}
           /\ unary[u].reply \in {"ok", "error"}
    /\ \A id \in Identities : notified[id] = 0

\* call c's stream has emitted 'error'
StreamFailed(c) == calls[c].events # <<>> /\ calls[c].events[1] = "error"

\* C19: a step in which a getBuild or runTask stream emits an error, or a
\* cancelRunTask, cancelRunTasks or cancelGetBuilds call is answered with an
\* error, leaves the transport handle, the close() calls and the retry
\* counter as they were; and a call issued when an earlier call has failed
\* is sent over the transport the failed call used, which has not been closed.
C19_ErrorsLeaveConnection ==
    [][/\ ((\E c \in DOMAIN calls : ~StreamFailed(c) /\ StreamFailed(c)')
              \/ (\E u \in DOMAIN unary :
                      unary[u].reply = "pending" /\ unary'[u].reply = "error"))
            => /\ grpcClient' = grpcClient
               /\ closeCalls' = closeCalls
               /\ connectTries' = connectTries
       /\ Len(calls') = Len(calls) + 1
            => /\ \A c \in DOMAIN calls :
                    StreamFailed(c)
                        => /\ calls'[Len(calls')].client = calls[c].client
                           /\ closeCalls'[calls[c].client] = 0
               /\ \A u \in DOMAIN unary :
                    unary[u].reply = "error"
                        => /\ calls'[Len(calls')].client = unary[u].client
                           /\ closeCalls'[unary[u].client] = 0]_vars

\* C19 witness: a stream failed, and a runTask call sent over the same
\* transport has ended, resolved and logged its completion.
C19_Witness ==
    \E c1, c2 \in DOMAIN calls :
        /\ c1 < c2
        /\ StreamFailed(c1)
        /\ calls[c2].kind = "runTask"
        /\ calls[c2].client = calls[c1].client
        /\ calls[c2].events = <<"end">>
        /\ calls[c2].outcome = "resolved"
        /\ LogInfo("client.completedTask", <<calls[c2].task>>)
               \in Range(calls[c2].fx)
        /\ closeCalls[calls[c2].client] = 0

\* C20: when a getBuild call and a runTask call have both been opened on the
\* transport and at least one of the two is still in flight, the status bar
\* item is shown.
C20_IndicatorWhileInFlight ==
    \A c1, c2 \in DOMAIN calls :
        (/\ calls[c1].kind = "getBuild"
         /\ calls[c2].kind = "runTask"
         /\ calls[c1].client # NoClient
         /\ calls[c2].client # NoClient
         /\ (calls[c1].outcome = "pending" \/ calls[c2].outcome = "pending"))
            => statusVisible

====
